---- MODULE Spec2Model ----
(***************************************************************************)
(* Model of minesweeper.py: the Sentence constraint type and the           *)
(* MinesweeperAI knowledge base with its recursive propagation             *)
(* (add_knowledge, mark_mine, mark_safe, is_conclusive,                    *)
(* conclude_infer_integrate).  The Python call stack is explicit: `stack`  *)
(* is the sequence of active frames, innermost first.  A Sentence object   *)
(* is referenced either from `knowledge` or from exactly one frame, so     *)
(* sentences are modelled by value and a list position stands for the      *)
(* object's identity.                                                      *)
(***************************************************************************)
EXTENDS Integers, Sequences, FiniteSets, TLC

\* Largest board the specification draws (height x width) and the largest
\* number of mines laid on it.
MaxHeight == 3
MaxWidth == 3
MaxMines == 2
\* The largest number of mines on the boards of the fair specification, on
\* which termination is checked as a liveness property.
MaxFairMines == 1
\* The number of cells the sentences are drawn over where the Sentence
\* methods are called on their own.
MaxSentenceCells == 3

VARIABLES
    height,      \* MinesweeperAI.height / Minesweeper.height
    width,       \* MinesweeperAI.width / Minesweeper.width
    board,       \* Minesweeper.mines: the true mine layout
    moves_made,  \* MinesweeperAI.moves_made
    mines,       \* MinesweeperAI.mines
    safes,       \* MinesweeperAI.safes
    knowledge,   \* MinesweeperAI.knowledge: list of sentences
    stack,       \* active calls, innermost first
    derived,     \* sentences appended to an `inferences` list during the
                 \* running add_knowledge call (history of line 275)
    result       \* what the last query (make_safe_move, make_random_move, a
                 \* Sentence method called on its own) returned

vars == <<height, width, board, moves_made, mines, safes, knowledge, stack, derived, result>>

-----------------------------------------------------------------------------
(* Cells and the board *)

CellsOf(h, w) == (0 .. h - 1) \X (0 .. w - 1)

Cells == CellsOf(height, width)

\* The 3x3 block around a cell clipped to the board, the cell included
\* (the two range loops of add_knowledge and nearby_mines).
Block(cell) ==
    {c \in Cells : /\ cell[1] - 1 <= c[1] /\ c[1] <= cell[1] + 1
                   /\ cell[2] - 1 <= c[2] /\ c[2] <= cell[2] + 1}

\* Minesweeper.nearby_mines: mines within one row and column, cell excluded.
nearby_mines(cell) == Cardinality({c \in Block(cell) : c # cell /\ c \in board})

-----------------------------------------------------------------------------
(* Sentence *)

Sentence(cells, count) == [cells |-> cells, count |-> count]

is_empty(s) == s.cells = {}

\* The result of known_mines / known_safes: a set, or None.
None == [some |-> FALSE, cells |-> {}]
Some(cells) == [some |-> TRUE, cells |-> cells]

\* Faulty variant: known_mines never reports a set.
known_mines_never(s) == None

known_mines(s) == IF s.count = Cardinality(s.cells) THEN Some(s.cells) ELSE None

\* Faulty variant: known_safes reports the empty set where it has nothing to
\* report.
known_safes_default(s) == IF s.count = 0 THEN Some(s.cells) ELSE Some({})

known_safes(s) == IF s.count = 0 THEN Some(s.cells) ELSE None

\* Python truth value of such a result: None and the empty set are false.
Truthy(r) == r.some /\ r.cells # {}

\* Faulty variant: mark_mine removes the cell and forgets to lower the count.
Sentence_mark_mine_keep_count(s, cell) ==
    IF cell \in s.cells THEN Sentence(s.cells \ {cell}, s.count) ELSE s

\* Faulty variant: mark_safe lowers the count as mark_mine does.
Sentence_mark_safe_as_mine(s, cell) ==
    IF cell \in s.cells THEN Sentence(s.cells \ {cell}, s.count - 1) ELSE s

\* Sentence.mark_mine / mark_safe: the sentence after the call; the call
\* reports a change exactly when cell \in s.cells.
Sentence_mark_mine(s, cell) ==
    IF cell \in s.cells THEN Sentence(s.cells \ {cell}, s.count - 1) ELSE s

Sentence_mark_safe(s, cell) ==
    IF cell \in s.cells THEN Sentence(s.cells \ {cell}, s.count) ELSE s

SentenceChanged(s, cell) == cell \in s.cells

-----------------------------------------------------------------------------
(* Python list helpers *)

Range(list) == {list[i] : i \in 1 .. Len(list)}

\* `x in list`
In(x, list) == x \in Range(list)

\* list.remove(x): drops the first element equal to x.
ListRemove(list, x) ==
    LET k == CHOOSE i \in 1 .. Len(list) :
                 /\ list[i] = x
                 /\ \A j \in 1 .. i - 1 : list[j] # x
    IN  SubSeq(list, 1, k - 1) \o SubSeq(list, k + 1, Len(list))

-----------------------------------------------------------------------------
(* Frames *)

NoCell == <<-1, -1>>
NoSentence == Sentence({}, 0)

Frame(fn, pc, cell, count, sentence, idx, todo, inferences) ==
    [fn |-> fn, pc |-> pc, cell |-> cell, count |-> count, sentence |-> sentence,
     idx |-> idx, todo |-> todo, inferences |-> inferences]

AddKnowledgeFrame(pc, cell, count) ==
    Frame("add_knowledge", pc, cell, count, NoSentence, 0, {}, <<>>)

\* fn is "mark_mine" or "mark_safe"; idx is the list iterator's index.
MarkFrame(fn, cell, idx) ==
    Frame(fn, "loop", cell, 0, NoSentence, idx, {}, <<>>)

CiiFrame(pc, sentence, todo, inferences) ==
    Frame("conclude_infer_integrate", pc, NoCell, 0, sentence, 0, todo, inferences)

\* A returned value: op names the call, none says that it returned None, and
\* cell, cells or flag hold a returned cell, set of cells or boolean.
Result(op, none, cell, cells, flag) ==
    [op |-> op, none |-> none, cell |-> cell, cells |-> cells, flag |-> flag]

NoResult == Result("none", TRUE, NoCell, {}, FALSE)

ReturnedNone(op) == Result(op, TRUE, NoCell, {}, FALSE)

ReturnedCell(op, cell) == Result(op, FALSE, cell, {}, FALSE)

Top == Head(stack)
Rest == Tail(stack)
Idle == stack = <<>>
Running(fn, pc) == stack # <<>> /\ Top.fn = fn /\ Top.pc = pc

-----------------------------------------------------------------------------
(* Initial state: MinesweeperAI.__init__ on a board with some mine layout *)

\* Minesweeper.__init__: the layouts of at most MaxMines mines.
Layouts(h, w) == {b \in SUBSET CellsOf(h, w) : Cardinality(b) <= MaxMines}

Init ==
    /\ height \in 1 .. MaxHeight
    /\ width \in 1 .. MaxWidth
    /\ board \in Layouts(height, width)
    /\ moves_made = {}
    /\ mines = {}
    /\ safes = {}
    /\ knowledge = <<>>
    /\ stack = <<>>
    /\ derived = {}
    /\ result = NoResult

-----------------------------------------------------------------------------
(* Calls *)

\* Faulty variant: the set is replaced by the cell.
MarkedSetReplaced(set, cell) == {cell}

\* Faulty variant: the cell is not added.
MarkedSetForgotten(set, cell) == set

\* Entering mark_mine / mark_safe: the cell joins the global set (lines 176
\* and 189) and the loop over `knowledge` starts at index 0.
MarkedSet(set, cell) == set \cup {cell}

\* What sentence.mark_mine / sentence.mark_safe leaves of the sentence.
MarkedSentence(fn, s, cell) ==
    IF fn = "mark_mine" THEN Sentence_mark_mine(s, cell) ELSE Sentence_mark_safe(s, cell)

\* The list after lines 179-181 (193-194) at iterator index idx: the sentence
\* at that position is pruned in place, then list.remove drops the first
\* element equal to it.
PrunedKnowledge(fn, list, idx, cell) ==
    LET t == MarkedSentence(fn, list[idx + 1], cell)
    IN  ListRemove([list EXCEPT ![idx + 1] = t], t)

\* The next index of the `for sentence in self.knowledge` iterator.
NextIndex(idx) == idx + 1

-----------------------------------------------------------------------------
(* conclude_infer_integrate: the inferences of lines 256-275 *)

\* Faulty variant: only the first subset test is made.
HasInferenceOneWay(s, other) == s.cells \subseteq other.cells

HasInference(s, other) == s.cells \subseteq other.cells \/ other.cells \subseteq s.cells

\* Faulty variant: the first branch subtracts the counts the wrong way round.
InferenceSwapped(s, other) ==
    IF s.cells \subseteq other.cells
    THEN Sentence(other.cells \ s.cells, s.count - other.count)
    ELSE Sentence(s.cells \ other.cells, s.count - other.count)

Inference(s, other) ==
    IF s.cells \subseteq other.cells
    THEN Sentence(other.cells \ s.cells, other.count - s.count)
    ELSE Sentence(s.cells \ other.cells, s.count - other.count)

RECURSIVE InferencesFrom(_, _, _, _)
InferencesFrom(s, list, i, acc) ==
    IF i > Len(list) THEN acc
    ELSE LET other == list[i]
             inference == Inference(s, other)
         IN  IF HasInference(s, other) /\ ~In(inference, acc) /\ ~In(inference, list)
             THEN InferencesFrom(s, list, i + 1, Append(acc, inference))
             ELSE InferencesFrom(s, list, i + 1, acc)

Inferences(s, list) == InferencesFrom(s, list, 1, <<>>)

\* Faulty variant: the filter drops only empty sentences.
FilteredEmptyOnly(s, list) == is_empty(s)

\* The filter of line 251.
Filtered(s, list) == In(s, list) \/ is_empty(s)

-----------------------------------------------------------------------------
(* add_knowledge: the new sentence of lines 217-230 *)

surrounding_unknowns(cell) == {c \in Block(cell) : c \notin safes /\ c \notin mines}

\* Faulty variant: the count is not lowered for the neighbours known to be mines.
AdjustedCountIgnoringMines(cell, count) == count

AdjustedCount(cell, count) ==
    count - Cardinality({c \in Block(cell) : c \notin safes /\ c \in mines})

NewSentence(cell, count) == Sentence(surrounding_unknowns(cell), AdjustedCount(cell, count))

-----------------------------------------------------------------------------
(* Actions *)

\* add_knowledge(cell, count), lines 213-215: the game loop reveals a cell
\* that is no mine and was not revealed, with its true count; the cell is
\* recorded as a move and mark_safe(cell) is entered.
add_knowledge ==
    /\ Idle
    /\ \E cell \in Cells \ (board \cup moves_made) :
          /\ moves_made' = moves_made \cup {cell}
          /\ safes' = MarkedSet(safes, cell)
          /\ stack' = <<MarkFrame("mark_safe", cell, 0),
                        AddKnowledgeFrame("build", cell, nearby_mines(cell))>>
    /\ result' = NoResult
    /\ UNCHANGED <<height, width, board, mines, knowledge, derived>>

\* The loop of mark_mine / mark_safe from iterator index idx up to its next
\* call: the iterations whose sentence does not hold the cell change nothing
\* and are passed over; Changing is the index of the first sentence that
\* does, or -1 when the iterator runs off the end of the list.
Changing(list, idx, cell) ==
    LET hits == {j \in idx .. Len(list) - 1 : SentenceChanged(list[j + 1], cell)}
    IN  IF hits = {} THEN -1 ELSE CHOOSE j \in hits : \A k \in hits : j <= k

MarkLoop(fn) ==
    /\ LET j == Changing(knowledge, Top.idx, Top.cell)
       IN  IF j >= 0
           THEN /\ knowledge' = PrunedKnowledge(fn, knowledge, j, Top.cell)
                /\ stack' = <<CiiFrame("entry", MarkedSentence(fn, knowledge[j + 1], Top.cell), {}, <<>>),
                              [Top EXCEPT !.idx = NextIndex(j)]>> \o Rest
           ELSE /\ stack' = Rest
                /\ UNCHANGED knowledge
    /\ UNCHANGED <<result, height, width, board, moves_made, mines, safes, derived>>

\* mark_mine, lines 177-182.
mark_mine ==
    /\ Running("mark_mine", "loop")
    /\ MarkLoop("mark_mine")

\* mark_safe, lines 190-195.
mark_safe ==
    /\ Running("mark_safe", "loop")
    /\ MarkLoop("mark_safe")

\* add_knowledge, lines 217-230, after mark_safe(cell) has returned.
add_knowledge_sentence ==
    /\ Running("add_knowledge", "build")
    /\ stack' = <<CiiFrame("entry", NewSentence(Top.cell, Top.count), {}, <<>>),
                  [Top EXCEPT !.pc = "return"]>> \o Rest
    /\ UNCHANGED <<result, height, width, board, moves_made, mines, safes, knowledge, derived>>

add_knowledge_return ==
    /\ Running("add_knowledge", "return")
    /\ stack' = Rest
    /\ derived' = {}
    /\ UNCHANGED <<result, height, width, board, moves_made, mines, safes, knowledge>>

\* conclude_infer_integrate from its entry to its first call or return:
\* the filter (251), the tests of is_conclusive (234-235, 240-241), and for
\* an inconclusive sentence the inferences and the append (256-277).
conclude_infer_integrate ==
    /\ Running("conclude_infer_integrate", "entry")
    /\ LET s == Top.sentence
       IN  IF Filtered(s, knowledge)
           THEN /\ stack' = Rest
                /\ UNCHANGED <<knowledge, derived>>
           ELSE IF Truthy(known_safes(s))
           THEN /\ stack' = <<CiiFrame("safes", s, known_safes(s).cells, <<>>)>> \o Rest
                /\ UNCHANGED <<knowledge, derived>>
           ELSE IF Truthy(known_mines(s))
           THEN /\ stack' = <<CiiFrame("mines", s, known_mines(s).cells, <<>>)>> \o Rest
                /\ UNCHANGED <<knowledge, derived>>
           ELSE /\ knowledge' = Append(knowledge, s)
                /\ stack' = <<CiiFrame("inferences", s, {}, Inferences(s, knowledge))>> \o Rest
                /\ derived' = derived \cup Range(Inferences(s, knowledge))
    /\ UNCHANGED <<result, height, width, board, moves_made, mines, safes>>

\* Faulty variant: the loop does not move past the cell it has taken.
RemainingAll(todo, cell) == todo

\* The cells of the copied set still to visit after `cell` was taken.
Remaining(todo, cell) == todo \ {cell}

\* is_conclusive, lines 236-238: the loop over the copied known safes, in
\* the set's iteration order (any order); then conclude_infer_integrate
\* returns.
is_conclusive_safes ==
    /\ Running("conclude_infer_integrate", "safes")
    /\ IF Top.todo = {}
       THEN /\ stack' = Rest
            /\ UNCHANGED safes
       ELSE \E cell \in Top.todo :
               /\ safes' = MarkedSet(safes, cell)
               /\ stack' = <<MarkFrame("mark_safe", cell, 0),
                             [Top EXCEPT !.todo = Remaining(@, cell)]>> \o Rest
    /\ UNCHANGED <<result, height, width, board, moves_made, mines, knowledge, derived>>

\* is_conclusive, lines 242-244: the same over the copied known mines.
is_conclusive_mines ==
    /\ Running("conclude_infer_integrate", "mines")
    /\ IF Top.todo = {}
       THEN /\ stack' = Rest
            /\ UNCHANGED mines
       ELSE \E cell \in Top.todo :
               /\ mines' = MarkedSet(mines, cell)
               /\ stack' = <<MarkFrame("mark_mine", cell, 0),
                             [Top EXCEPT !.todo = Remaining(@, cell)]>> \o Rest
    /\ UNCHANGED <<result, height, width, board, moves_made, safes, knowledge, derived>>

\* conclude_infer_integrate, lines 279-282: the loop over the inferences.
IntegrateInferences ==
    /\ Running("conclude_infer_integrate", "inferences")
    /\ IF Top.inferences = <<>>
       THEN stack' = Rest
       ELSE stack' = <<CiiFrame("entry", Head(Top.inferences), {}, <<>>),
                       [Top EXCEPT !.inferences = Tail(@)]>> \o Rest
    /\ UNCHANGED <<result, height, width, board, moves_made, mines, safes, knowledge, derived>>

-----------------------------------------------------------------------------
(* The move queries *)

\* Faulty variant: any known safe cell is returned, played or not.
SafeMoveResultsPlayed ==
    IF safes = {}
    THEN {ReturnedNone("make_safe_move")}
    ELSE {ReturnedCell("make_safe_move", c) : c \in safes}

\* make_safe_move, lines 292-295: the first cell of `safes`, in the set's
\* iteration order (any order), that is not in `moves_made`; None when the
\* loop finds none.
SafeMoveResults ==
    IF \A c \in safes : c \in moves_made
    THEN {ReturnedNone("make_safe_move")}
    ELSE {ReturnedCell("make_safe_move", c) : c \in {d \in safes : d \notin moves_made}}

make_safe_move ==
    /\ Idle
    /\ result' \in SafeMoveResults
    /\ UNCHANGED <<height, width, board, moves_made, mines, safes, knowledge, stack, derived>>

\* Row-major order of the two range loops of make_random_move.
RowMajorBefore(c, d) == c[1] < d[1] \/ (c[1] = d[1] /\ c[2] <= d[2])

\* Faulty variant: cells known to be mines are not passed over.
RandomMoveCandidatesWithMines == {c \in Cells : c \notin moves_made}

\* The cells that pass the test of line 306.
RandomMoveCandidates == {c \in Cells : c \notin moves_made /\ c \notin mines}

\* make_random_move, lines 304-307: the first candidate in row-major order;
\* the function falls off its end, returning None, when there is none.
RandomMoveResult ==
    IF RandomMoveCandidates = {}
    THEN ReturnedNone("make_random_move")
    ELSE ReturnedCell("make_random_move",
                      CHOOSE c \in RandomMoveCandidates :
                          \A d \in RandomMoveCandidates : RowMajorBefore(c, d))

make_random_move ==
    /\ Idle
    /\ result' = RandomMoveResult
    /\ UNCHANGED <<height, width, board, moves_made, mines, safes, knowledge, stack, derived>>

\* The steps inside a running add_knowledge call.
Step ==
    \/ mark_mine
    \/ mark_safe
    \/ add_knowledge_sentence
    \/ add_knowledge_return
    \/ conclude_infer_integrate
    \/ is_conclusive_safes
    \/ is_conclusive_mines
    \/ IntegrateInferences

Next == add_knowledge \/ Step \/ make_safe_move \/ make_random_move

Spec == Init /\ [][Next]_vars

\* A call that was entered runs on: Python executes the next statement of the
\* innermost active call (single-threaded, no suspension points).
FairInit == Init /\ Cardinality(board) <= MaxFairMines

FairSpec == FairInit /\ [][Next]_vars /\ WF_vars(Step)

-----------------------------------------------------------------------------
(* Properties *)

\* C1 (soundness): under truthful reveals, every cell ever placed in `mines`
\* is a mine of the board and every cell ever placed in `safes` is not.
C1_Soundness == mines \subseteq board /\ safes \cap board = {}

\* A mine and a safe cell that was never revealed have both been concluded.
C1_Witness == Idle /\ mines # {} /\ safes \ moves_made # {}

\* C2: `mines` and `safes` are disjoint in every reachable state, the states
\* inside a propagation cascade included.
C2_Disjoint == mines \cap safes = {}

\* Inside a cascade, with cells in both sets.
C2_Witness == ~Idle /\ Len(stack) >= 4 /\ mines # {} /\ safes \ moves_made # {}

\* C3: whenever add_knowledge has returned, no sentence in `knowledge`
\* contains a cell that is in `safes` or in `mines`.
C3_PrunedAtReturn ==
    Idle => \A i \in 1 .. Len(knowledge) : knowledge[i].cells \cap (safes \cup mines) = {}

\* The sentences alive at a moment: those in `knowledge`, the sentence each
\* active conclude_infer_integrate call was given (a pruned sentence is passed
\* on with the value it has in the list right after the in-place pruning),
\* and the inferences waiting to be integrated.
FrameSentences(f) ==
    IF f.fn = "conclude_infer_integrate"
    THEN {f.sentence} \cup Range(f.inferences)
    ELSE {}

HeldSentences ==
    Range(knowledge) \cup UNION {FrameSentences(stack[i]) : i \in 1 .. Len(stack)}

\* C4: every sentence held in `knowledge` at any time, and every pruned or
\* subset-derived sentence on its way into it, has 0 <= count <= |cells|.
C4_CountInRange == \A s \in HeldSentences : 0 <= s.count /\ s.count <= Cardinality(s.cells)

\* A subset-derived sentence is waiting while `knowledge` holds a sentence
\* that was pruned by a known mine (its count is below its reported count).
C4_Witness ==
    /\ Running("conclude_infer_integrate", "inferences")
    /\ Top.inferences # <<>>
    /\ mines # {}
    /\ knowledge # <<>>

\* C5: after add_knowledge returns, `knowledge` holds no two sentences that
\* are equal by value.
C5_NoDuplicates ==
    Idle => \A i, j \in 1 .. Len(knowledge) : i # j => knowledge[i] # knowledge[j]

\* The in-place pruning made a sentence equal to an earlier one, list.remove
\* dropped that one, and the pruned object is still in the list when it is
\* handed to conclude_infer_integrate.
C5_Witness ==
    /\ Len(stack) >= 2
    /\ Running("conclude_infer_integrate", "entry")
    /\ stack[2].fn \in {"mark_mine", "mark_safe"}
    /\ In(Top.sentence, knowledge)

\* The same holds in every state of a cascade.
NoDuplicatesEver == \A i, j \in 1 .. Len(knowledge) : i # j => knowledge[i] # knowledge[j]

\* Every sentence anywhere states the truth about the board.
AllTrue == \A s \in HeldSentences : s.count = Cardinality(s.cells \cap board)


\* C6: every add_knowledge call terminates: from every state inside a call the
\* cascade reaches a state with no active call and nothing left to integrate.
C6_Terminates == (~Idle) ~> Idle

\* A cascade three calls deep below add_knowledge is running.
C6_Witness == Len(stack) >= 5 /\ stack[Len(stack)].fn = "add_knowledge"


-----------------------------------------------------------------------------
(* Properties of conclude_infer_integrate *)

\* The call on top of the stack is conclude_infer_integrate at its entry.
AtEntry == Running("conclude_infer_integrate", "entry")

Unresolved(s) == s.cells # {} /\ 0 < s.count /\ s.count < Cardinality(s.cells)

\* The difference sentence of a pair whose first cell set is within the second.
Difference(small, big) == [cells |-> big.cells \ small.cells, count |-> big.count - small.count]

\* C7 (subset inference): when an unresolved sentence S that is not yet in
\* `knowledge` is integrated, then for every live O with S.cells within
\* O.cells the sentence (O.cells - S.cells, O.count - S.count), and otherwise
\* for every live O with O.cells within S.cells the sentence
\* (S.cells - O.cells, S.count - O.count), is among the inferences to integrate
\* unless `knowledge` already holds it; S joins `knowledge`; each inference is
\* then passed to conclude_infer_integrate in turn; and when add_knowledge
\* returns, the cells of every derived sentence with count 0 are in `safes`.
C7_SubsetInference ==
    [][ /\ (AtEntry /\ Unresolved(Top.sentence) /\ ~(Top.sentence \in Range(knowledge)))
           => /\ stack' # <<>>
              /\ Head(stack').pc = "inferences"
              /\ knowledge' = Append(knowledge, Top.sentence)
              /\ \A i \in 1 .. Len(knowledge) :
                    LET S == Top.sentence
                        O == knowledge[i]
                        staged == Range(Head(stack').inferences) \cup Range(knowledge)
                    IN  /\ S.cells \subseteq O.cells => Difference(S, O) \in staged
                        /\ (O.cells \subseteq S.cells /\ ~(S.cells \subseteq O.cells))
                              => Difference(O, S) \in staged
        /\ (Running("conclude_infer_integrate", "inferences") /\ Top.inferences # <<>>)
           => /\ Len(stack') = Len(stack) + 1
              /\ Head(stack').fn = "conclude_infer_integrate"
              /\ Head(stack').pc = "entry"
              /\ Head(stack').sentence = Head(Top.inferences)
              /\ stack'[2].inferences = Tail(Top.inferences)
        /\ Running("add_knowledge", "return")
           => \A d \in derived : (d.cells # {} /\ d.count = 0) => d.cells \subseteq safes
      ]_vars

\* With {A,B}=1 live, {A,B,C}=1 has just been integrated and {C}=0 is the
\* inference waiting.
C7_Witness ==
    /\ Running("conclude_infer_integrate", "inferences")
    /\ Cardinality(Top.sentence.cells) = 3
    /\ Top.sentence.count = 1
    /\ Top.inferences # <<>>
    /\ Head(Top.inferences).count = 0
    /\ Cardinality(Head(Top.inferences).cells) = 1
    /\ \E i \in 1 .. Len(knowledge) :
          /\ knowledge[i].count = 1
          /\ Cardinality(knowledge[i].cells) = 2
          /\ knowledge[i].cells = Top.sentence.cells \ Head(Top.inferences).cells

\* The opposite order: with {A,B,C}=1 live, {A,B}=1 has just been integrated.
C7_WitnessOpposite ==
    /\ Running("conclude_infer_integrate", "inferences")
    /\ Cardinality(Top.sentence.cells) = 2
    /\ Top.sentence.count = 1
    /\ Top.inferences # <<>>
    /\ Head(Top.inferences).count = 0
    /\ Cardinality(Head(Top.inferences).cells) = 1
    /\ \E i \in 1 .. Len(knowledge) :
          /\ knowledge[i].count = 1
          /\ knowledge[i].cells = Top.sentence.cells \cup Head(Top.inferences).cells

\* The derived {C}=0 has put C in `safes` by the time add_knowledge returns.
C7_WitnessEnd ==
    /\ Running("add_knowledge", "return")
    /\ \E d \in derived : Cardinality(d.cells) = 1 /\ d.count = 0 /\ d.cells \subseteq safes

\* C8 (resolution): integrating a non-empty sentence whose count equals its
\* size marks all its cells and returns with every one of them in `mines`;
\* with count 0, in `safes`; in both cases the sentence is not added to
\* `knowledge`.
C8_Resolution ==
    [][ /\ (AtEntry /\ Top.sentence.cells # {}
                    /\ Top.sentence.count = Cardinality(Top.sentence.cells))
           => /\ Len(stack') = Len(stack)
              /\ Head(stack').pc = "mines"
              /\ Head(stack').sentence = Top.sentence
              /\ Head(stack').todo = Top.sentence.cells
              /\ knowledge' = knowledge
        /\ (AtEntry /\ Top.sentence.cells # {} /\ Top.sentence.count = 0)
           => /\ Len(stack') = Len(stack)
              /\ Head(stack').pc = "safes"
              /\ Head(stack').sentence = Top.sentence
              /\ Head(stack').todo = Top.sentence.cells
              /\ knowledge' = knowledge
        /\ (Running("conclude_infer_integrate", "mines") /\ stack' = Rest)
           => /\ Top.sentence.cells \subseteq mines'
              /\ ~(Top.sentence \in Range(knowledge'))
        /\ (Running("conclude_infer_integrate", "safes") /\ stack' = Rest)
           => /\ Top.sentence.cells \subseteq safes'
              /\ ~(Top.sentence \in Range(knowledge'))
        /\ (Running("conclude_infer_integrate", "mines") /\ Top.todo # {})
           => /\ Len(stack') = Len(stack) + 1
              /\ Head(stack').fn = "mark_mine"
              /\ Head(stack').cell \in Top.todo
              /\ mines' = mines \cup {Head(stack').cell}
              /\ stack'[2].todo = Top.todo \ {Head(stack').cell}
        /\ (Running("conclude_infer_integrate", "safes") /\ Top.todo # {})
           => /\ Len(stack') = Len(stack) + 1
              /\ Head(stack').fn = "mark_safe"
              /\ Head(stack').cell \in Top.todo
              /\ safes' = safes \cup {Head(stack').cell}
              /\ stack'[2].todo = Top.todo \ {Head(stack').cell}
      ]_vars

\* {A}=1 was integrated into an empty knowledge base and the call is about to
\* return: A is in `mines` and `knowledge` is still empty.
C8_Witness ==
    /\ Running("conclude_infer_integrate", "mines")
    /\ Top.todo = {}
    /\ Cardinality(Top.sentence.cells) = 1
    /\ Top.sentence.count = 1
    /\ Top.sentence.cells \subseteq mines
    /\ knowledge = <<>>
    /\ Len(stack) = 2

\* C9 (idempotence): conclude_infer_integrate called with a sentence equal by
\* value to one in `knowledge` returns at once and leaves `knowledge`,
\* `safes`, `mines` and `moves_made` unchanged.
C9_Idempotent ==
    [][ (AtEntry /\ \E i \in 1 .. Len(knowledge) : knowledge[i] = Top.sentence)
           => /\ stack' = Rest
              /\ knowledge' = knowledge
              /\ safes' = safes
              /\ mines' = mines
              /\ moves_made' = moves_made
      ]_vars

\* An inference that `knowledge` did not hold when it was derived is equal to
\* a sentence of `knowledge` when its turn to be integrated comes.
C9_Witness ==
    /\ AtEntry
    /\ Len(stack) >= 2
    /\ stack[2].fn = "conclude_infer_integrate"
    /\ \E i \in 1 .. Len(knowledge) : knowledge[i] = Top.sentence

\* C10 (end-to-end): on the 3x3 board with its single mine at (0,0), after
\* add_knowledge((2,2), 0) the cells (1,1), (1,2), (2,1) are in `safes`; after
\* the further reveals of (1,1), (1,2) and (2,1), (0,1) and (1,0) are in
\* `safes` and (0,0) is in `mines`.
C10_Scenario ==
    (Idle /\ height = 3 /\ width = 3 /\ board = {<<0, 0>>})
    => /\ moves_made = {<<2, 2>>}
          => {<<1, 1>>, <<1, 2>>, <<2, 1>>} \subseteq safes
       /\ moves_made = {<<2, 2>>, <<1, 1>>, <<1, 2>>, <<2, 1>>}
          => {<<0, 1>>, <<1, 0>>} \subseteq safes /\ <<0, 0>> \in mines

C10_Witness ==
    /\ Idle /\ height = 3 /\ width = 3 /\ board = {<<0, 0>>}
    /\ moves_made = {<<2, 2>>, <<1, 1>>, <<1, 2>>, <<2, 1>>}
    /\ <<0, 0>> \in mines

-----------------------------------------------------------------------------
(* Properties of the move queries *)

\* C11: make_safe_move returns a cell that is in `safes` and not in
\* `moves_made`, returns None exactly when `safes` is within `moves_made`,
\* and leaves `safes`, `mines`, `moves_made` and `knowledge` unchanged.
C11_SafeMove ==
    [][ result'.op = "make_safe_move"
           => /\ result'.none <=> safes \subseteq moves_made
              /\ ~result'.none => (result'.cell \in safes /\ result'.cell \notin moves_made)
              /\ safes' = safes
              /\ mines' = mines
              /\ moves_made' = moves_made
              /\ knowledge' = knowledge
      ]_vars

\* A cell concluded safe and never played was returned while played safe
\* cells exist.
C11_Witness ==
    /\ result.op = "make_safe_move"
    /\ ~result.none
    /\ result.cell \in safes \ moves_made
    /\ moves_made # {}

\* None was returned although cells are known to be safe: all were played.
C11_WitnessNone ==
    /\ result.op = "make_safe_move"
    /\ result.none
    /\ safes # {}

\* C12: make_random_move returns an in-bounds cell that is in neither
\* `moves_made` nor `mines`, returns None exactly when every in-bounds cell is
\* in `moves_made` or `mines`, and mutates no state.
C12_RandomMove ==
    [][ result'.op = "make_random_move"
           => /\ result'.none
                 <=> \A i \in 0 .. height - 1 : \A j \in 0 .. width - 1 :
                        <<i, j>> \in moves_made \/ <<i, j>> \in mines
              /\ ~result'.none
                 => /\ 0 <= result'.cell[1] /\ result'.cell[1] < height
                    /\ 0 <= result'.cell[2] /\ result'.cell[2] < width
                    /\ result'.cell \notin moves_made
                    /\ result'.cell \notin mines
              /\ safes' = safes
              /\ mines' = mines
              /\ moves_made' = moves_made
              /\ knowledge' = knowledge
              /\ height' = height
              /\ width' = width
      ]_vars

\* A cell was returned after the scan passed over a known mine and a played
\* cell that come before it in row-major order.
C12_Witness ==
    /\ result.op = "make_random_move"
    /\ ~result.none
    /\ \E m \in mines : RowMajorBefore(m, result.cell)
    /\ \E m \in moves_made : RowMajorBefore(m, result.cell)

\* None was returned on a board with mines: every cell is played or a known
\* mine.
C12_WitnessNone ==
    /\ result.op = "make_random_move"
    /\ result.none
    /\ mines # {}

-----------------------------------------------------------------------------
(* The Sentence methods called on their own *)

\* The cells a sentence under test is drawn over.
SentenceCells == CellsOf(1, MaxSentenceCells)

\* The sentences the program builds: a set of cells and a count within it.
Sentences ==
    {Sentence(cells, count) : <<cells, count>> \in
        {p \in (SUBSET SentenceCells) \X (0 .. MaxSentenceCells) : p[2] <= Cardinality(p[1])}}

\* One Sentence object, held as the only element of `knowledge`, and nothing
\* else.
SentenceInit ==
    /\ height = 1
    /\ width = MaxSentenceCells
    /\ board = {}
    /\ moves_made = {}
    /\ mines = {}
    /\ safes = {}
    /\ knowledge \in {<<s>> : s \in Sentences}
    /\ stack = <<>>
    /\ derived = {}
    /\ result = NoResult

\* The value known_mines / known_safes returned, as a result.
ReturnedKnown(op, r) == Result(op, ~r.some, NoCell, r.cells, FALSE)

\* sentence.known_mines()
CallKnownMines ==
    /\ result' = ReturnedKnown("known_mines", known_mines(knowledge[1]))
    /\ UNCHANGED <<height, width, board, moves_made, mines, safes, knowledge, stack, derived>>

\* sentence.known_safes()
CallKnownSafes ==
    /\ result' = ReturnedKnown("known_safes", known_safes(knowledge[1]))
    /\ UNCHANGED <<height, width, board, moves_made, mines, safes, knowledge, stack, derived>>

\* sentence.mark_mine(cell): the sentence is changed in place and the call
\* returns whether it was.
CallMarkMine ==
    /\ \E cell \in SentenceCells :
          /\ knowledge' = <<Sentence_mark_mine(knowledge[1], cell)>>
          /\ result' = Result("Sentence.mark_mine", FALSE, cell, {},
                              SentenceChanged(knowledge[1], cell))
    /\ UNCHANGED <<height, width, board, moves_made, mines, safes, stack, derived>>

\* sentence.mark_safe(cell)
CallMarkSafe ==
    /\ \E cell \in SentenceCells :
          /\ knowledge' = <<Sentence_mark_safe(knowledge[1], cell)>>
          /\ result' = Result("Sentence.mark_safe", FALSE, cell, {},
                              SentenceChanged(knowledge[1], cell))
    /\ UNCHANGED <<height, width, board, moves_made, mines, safes, stack, derived>>

SentenceNext == CallKnownMines \/ CallKnownSafes \/ CallMarkMine \/ CallMarkSafe

SentenceSpec == SentenceInit /\ [][SentenceNext]_vars

\* C13 as amended: known_mines returns None exactly when count differs from
\* the number of cells and known_safes exactly when count is not 0; otherwise
\* each returns the sentence's cell set, which for a sentence with an empty
\* cell set and count 0 is the empty set, not None.
C13_KnownOrNone ==
    /\ result.op = "known_mines"
       => /\ result.none <=> knowledge[1].count # Cardinality(knowledge[1].cells)
          /\ ~result.none => result.cells = knowledge[1].cells
    /\ result.op = "known_safes"
       => /\ result.none <=> knowledge[1].count # 0
          /\ ~result.none => result.cells = knowledge[1].cells

\* known_mines was called on the sentence with no cells and count 0 and
\* returned the empty set.
C13_Witness ==
    /\ result.op = "known_mines"
    /\ knowledge[1] = [cells |-> {}, count |-> 0]
    /\ ~result.none
    /\ result.cells = {}

\* C13 as stated: known_mines and known_safes return None whenever the
\* sentence is not resolvable, and known_mines on a sentence with an empty
\* cell set and count 0 returns None rather than an empty set.
C13_Original ==
    /\ (result.op = "known_mines" /\ knowledge[1].count # Cardinality(knowledge[1].cells))
       => result.none
    /\ (result.op = "known_safes" /\ knowledge[1].count # 0)
       => result.none
    /\ (result.op = "known_mines" /\ knowledge[1].cells = {} /\ knowledge[1].count = 0)
       => result.none

\* C15: Sentence.mark_mine(cell) on a sentence containing cell removes it,
\* decrements count by 1 and reports a change; Sentence.mark_safe(cell) on a
\* sentence containing cell removes it, leaves count unchanged and reports a
\* change; for a cell not in the sentence both leave cells and count
\* unchanged and report no change.
C15_SentenceMark ==
    [][ /\ result'.op = "Sentence.mark_mine"
           => IF result'.cell \in knowledge[1].cells
              THEN /\ knowledge'[1].cells = knowledge[1].cells \ {result'.cell}
                   /\ knowledge'[1].count = knowledge[1].count - 1
                   /\ result'.flag
              ELSE /\ knowledge'[1].cells = knowledge[1].cells
                   /\ knowledge'[1].count = knowledge[1].count
                   /\ ~result'.flag
        /\ result'.op = "Sentence.mark_safe"
           => IF result'.cell \in knowledge[1].cells
              THEN /\ knowledge'[1].cells = knowledge[1].cells \ {result'.cell}
                   /\ knowledge'[1].count = knowledge[1].count
                   /\ result'.flag
              ELSE /\ knowledge'[1].cells = knowledge[1].cells
                   /\ knowledge'[1].count = knowledge[1].count
                   /\ ~result'.flag
      ]_vars

\* mark_mine has just removed a cell from a sentence that keeps another cell
\* and a positive count.
C15_Witness ==
    /\ result.op = "Sentence.mark_mine"
    /\ result.flag
    /\ result.cell \notin knowledge[1].cells
    /\ knowledge[1].cells # {}
    /\ knowledge[1].count >= 1

\* mark_safe was called with a cell the sentence does not hold.
C15_WitnessAbsent ==
    /\ result.op = "Sentence.mark_safe"
    /\ ~result.flag
    /\ knowledge[1].cells # {}

\* C14: moves_made, safes and mines only grow: no step of any sequence of
\* add_knowledge, make_safe_move and make_random_move calls removes a cell
\* from any of the three sets.
C14_OnlyGrow ==
    [][ /\ moves_made \subseteq moves_made'
        /\ safes \subseteq safes'
        /\ mines \subseteq mines' ]_vars

\* All three sets hold cells, a move was made after the first, and a move
\* function has returned since.
C14_Witness ==
    /\ Idle
    /\ result.op = "make_safe_move"
    /\ Cardinality(moves_made) >= 2
    /\ Cardinality(safes) >= 3
    /\ mines # {}

\* The in-bounds neighbours of a cell, the cell itself excluded.
Neighbours(cell) ==
    {c \in CellsOf(height, width) :
        /\ c # cell
        /\ c[1] \in {cell[1] - 1, cell[1], cell[1] + 1}
        /\ c[2] \in {cell[2] - 1, cell[2], cell[2] + 1}}

\* C16: whenever add_knowledge has returned, every sentence in `knowledge`
\* is non-empty and has 0 < count < |cells|.
C16_Retired ==
    Idle => \A i \in 1 .. Len(knowledge) :
                /\ knowledge[i].cells # {}
                /\ 0 < knowledge[i].count
                /\ knowledge[i].count < Cardinality(knowledge[i].cells)

\* add_knowledge has returned, cells were found to be mines and to be safe
\* by resolved sentences, and sentences are still live.
C16_Witness ==
    /\ Idle
    /\ mines # {}
    /\ safes # moves_made
    /\ Len(knowledge) >= 2

\* C17: the sentence add_knowledge(cell, count) submits for integration has
\* as its cells exactly the in-bounds neighbours of cell that are in neither
\* `safes` nor `mines` once cell is marked safe, and as its count the
\* reported count minus the number of in-bounds neighbours in `mines`.
C17_NewSentence ==
    [][ Running("add_knowledge", "build")
        => /\ Head(stack').fn = "conclude_infer_integrate"
           /\ Head(stack').pc = "entry"
           /\ Head(stack').sentence.cells =
                 {c \in Neighbours(Top.cell) : c \notin safes /\ c \notin mines}
           /\ Head(stack').sentence.count =
                 Top.count - Cardinality(Neighbours(Top.cell) \cap mines) ]_vars

\* A sentence was just submitted for a cell with a neighbour known to be a
\* mine, a neighbour known to be safe and a neighbour that is neither.
C17_Witness ==
    /\ Len(stack) = 2
    /\ Head(stack).fn = "conclude_infer_integrate"
    /\ Head(stack).pc = "entry"
    /\ stack[2].fn = "add_knowledge"
    /\ Neighbours(stack[2].cell) \cap mines # {}
    /\ Neighbours(stack[2].cell) \cap safes # {}
    /\ Head(stack).sentence.cells # {}

\* C18: after any sequence of add_knowledge calls, moves_made is within
\* safes.
C18_MovesSafe == moves_made \subseteq safes

\* Several moves were made and add_knowledge has returned.
C18_Witness ==
    /\ Idle
    /\ Cardinality(moves_made) >= 3
    /\ safes # moves_made

\* C19: whenever add_knowledge has returned, for every two distinct
\* sentences A and B in `knowledge` with A.cells within B.cells, the
\* difference sentence (B.cells - A.cells, B.count - A.count) does not have
\* count 0 or count equal to its size while one of its cells is in neither
\* `safes` nor `mines`.
C19_Closure ==
    Idle => \A i, j \in 1 .. Len(knowledge) :
                (i # j /\ knowledge[i].cells \subseteq knowledge[j].cells)
                => LET d == Difference(knowledge[i], knowledge[j])
                   IN  ~ /\ d.count = 0 \/ d.count = Cardinality(d.cells)
                         /\ \E c \in d.cells : c \notin safes /\ c \notin mines

\* add_knowledge has returned with a live sentence whose cells are properly
\* within another's.
C19_Witness ==
    /\ Idle
    /\ \E i, j \in 1 .. Len(knowledge) :
          /\ i # j
          /\ knowledge[i].cells \subseteq knowledge[j].cells
          /\ knowledge[i].cells # knowledge[j].cells

====
